---- MODULE Spec2Model ----
(***************************************************************************)
(* A model of the mcstructure converter: the NBT codec wrapper             *)
(* (parseStructure / writeStructure / fixLevelDat), the converter page,    *)
(* the item generator page and the global snackbar.                        *)
(*                                                                         *)
(* JavaScript values are represented as follows.                           *)
(*   - a string is a sequence of fragments; '' is the empty sequence.      *)
(*     File names and fixed texts are TLA+ strings used as fragments.      *)
(*   - a Buffer is a sequence of bytes 0..255.                             *)
(*   - an NBT tag is a record [type, value]; the root carries a name.      *)
(*     A compound's value is the sequence of its entries [key, tag] in     *)
(*     insertion order, a key being a sequence of character codes.         *)
(*   - the number held by a float tag is one of the symbolic values of     *)
(*     JsFloats, or "null" once it has been through JSON.                  *)
(*   - undefined / true / false arguments are the strings "undefined",     *)
(*     "true" and "false".                                                 *)
(***************************************************************************)
EXTENDS Integers, Sequences, FiniteSets, TLC

VARIABLES
    \* ---- codec calls (src/unnamed/part_002)
    cArgs,          \* arguments of the last parseStructure / writeStructure call
    cResult,        \* what that call returned
    cPrev,          \* the call before it and what it returned, kept when the
                    \* last call has the same function, data and isLevelDat
    \* ---- snackbar provider (src/unnamed/part_000)
    message,        \* useState(context.message)
    severity,       \* useState(context.severity)
    snackProps,     \* props of the rendered <GlobalSnackbar>
    \* ---- converter page (src/unnamed/part_005, part_006)
    page,           \* which of the two versions of the page is mounted
    selection,      \* input type state
    fileName,       \* output file name state
    isError,        \* error flag state
    isLevelDatMode, \* level.dat mode state
    preview,        \* value of the preview <textarea>
    acceptedFile,   \* acceptedFiles[0] of the dropzone
    reading,        \* FileReader loads still in flight
    \* ---- item generator page (src/pages/items.js)
    items,          \* items state
    expand,         \* expand state
    itemList,       \* the Items array of the chest template: each element is
                    \* an item object and, when that very object is also in
                    \* items, its position there (ref, 0 otherwise)
    itemListIsItems,\* whether that array is the very array held in items
    \* ---- application shell (App, analytics, Header)
    GA_TRACKING_ID, \* process.env.NEXT_PUBLIC_GA_ID || ""
    appMounted,     \* whether the effect of App is in place
    listeners,      \* how many times handleRouteChange is subscribed to
                    \* routeChangeComplete
    gtagLoaded,     \* whether the inline script has defined window.gtag
    dataLayer,      \* window.dataLayer
    route,          \* the url of the page shown
    menuOpened,     \* menuOpened state as of the last render of Header
    menuQueue,      \* setMenuOpened calls not rendered yet
    drawerMounted,  \* whether the Drawer's content is in the document (open,
                    \* or closed with its exit transition still running)
    \* ---- history
    ev              \* the handler that ran last: its inputs and what it handed
                    \* to the browser (a download, a clipboard write)

codecVars == <<cArgs, cResult, cPrev>>
snackVars == <<message, severity, snackProps>>
pageVars == <<page, selection, fileName, isError, isLevelDatMode, preview,
              acceptedFile, reading>>
itemVars == <<items, expand, itemList, itemListIsItems>>
shellVars == <<GA_TRACKING_ID, appMounted, listeners, gtagLoaded, dataLayer, route,
               menuOpened, menuQueue, drawerMounted>>
vars == <<codecVars, snackVars, pageVars, itemVars, shellVars, ev>>

(***************************************************************************)
(* Bounds                                                                  *)
(***************************************************************************)
\* largest number of entries of a root compound in the data that is drawn
MaxEntries == 1
\* length of the long string tag (makes a payload longer than 255 bytes)
LongLen == 300
\* largest number of FileReader loads in flight at once
MaxReading == 1
\* items are edited at the first MaxEditIndex positions of the list
MaxEditIndex == 2
\* longest list of the specification in which items are edited
MaxListLen == 3
\* an item in the middle of the list is deleted in lists of up to MaxMidLen items
\* (the first and the last item in lists of any length)
MaxMidLen == 3
\* the export buttons are pressed with up to MaxExportLen items in the list
MaxExportLen == 2

\* enchantments an item gets
MaxEnchants == 1

\* entries of window.dataLayer
MaxDataLayer == 3

\* setMenuOpened calls between two renders of Header
MaxPending == 2

(***************************************************************************)
(* Bytes and little-endian integers                                        *)
(***************************************************************************)
\* Buffer.writeUInt16LE as the NBT writer uses it for string lengths
UInt16LE(n) == <<n % 256, (n \div 256) % 256>>

\* Buffer.alloc(4, 0) followed by writeInt32LE(n): two's complement, 32 bits
Int32LE(n) ==
    <<n % 256, (n \div 256) % 256, (n \div 65536) % 256, (n \div 16777216) % 256>>

Signed(u, bits) == IF u >= 2 ^ (bits - 1) THEN u - 2 ^ bits ELSE u

\* Buffer.readInt32LE: bytes i..i+3 of b as a signed little-endian integer
ReadInt32LE(b, i) == b[i] + 256 * b[i + 1] + 65536 * b[i + 2] + 16777216 * Signed(b[i + 3], 8)

ReadUInt16LE(b, i) == b[i] + 256 * b[i + 1]

(***************************************************************************)
(* NBT data                                                                *)
(***************************************************************************)
\* the numbers a float tag holds: three finite ones and the non-finite ones
JsFloats == {"0.0", "1.5", "-0.0", "NaN", "Infinity"}

\* IEEE-754 single precision, little-endian (Buffer.writeFloatLE); null
\* coerces to +0 (value = +value)
FloatLE(v) ==
    CASE v = "0.0" -> <<0, 0, 0, 0>>
      [] v = "1.5" -> <<0, 0, 192, 63>>
      [] v = "-0.0" -> <<0, 0, 0, 128>>
      [] v = "NaN" -> <<0, 0, 192, 127>>
      [] v = "Infinity" -> <<0, 0, 128, 127>>
      [] v = "null" -> <<0, 0, 0, 0>>

Tag(t, v) == [type |-> t, value |-> v]
Entry(k, t) == [key |-> k, tag |-> t]
Root(es) == [type |-> "compound", name |-> <<>>, value |-> es]

\* keys: "a", "b", "f", "i", "s", "c"
KeyA == <<97>>
KeyB == <<98>>
KeyF == <<102>>
KeyI == <<105>>
KeyS == <<115>>
KeyC == <<99>>

LongString == [i \in 1..LongLen |-> 120]

\* the named tags a root compound of the drawn data may hold
EntrySet ==
    {Entry(KeyA, Tag("byte", 1)),
     Entry(KeyB, Tag("short", 513)),
     Entry(KeyI, Tag("int", 70000)),
     Entry(KeyI, Tag("int", -2)),
     Entry(KeyS, Tag("string", LongString)),
     Entry(KeyC, Tag("compound", <<Entry(KeyA, Tag("byte", 0))>>))}
    \cup {Entry(KeyF, Tag("float", f)) : f \in JsFloats}

RECURSIVE DistinctKeys(_)
DistinctKeys(es) ==
    \/ es = <<>>
    \/ /\ \A i \in 2..Len(es) : es[i].key # es[1].key
       /\ DistinctKeys(Tail(es))

RECURSIVE SeqsUpTo(_, _)
SeqsUpTo(S, n) ==
    IF n = 0 THEN {<<>>}
    ELSE LET shorter == SeqsUpTo(S, n - 1)
         IN  shorter \cup {Append(s, x) : s \in {t \in shorter : Len(t) = n - 1}, x \in S}

\* the parsed NBT data objects the calls are made with
NbtData == {Root(es) : es \in {s \in SeqsUpTo(EntrySet, MaxEntries) : DistinctKeys(s)}}

\* an object that is JSON but no NBT tag, such as {"a": 1}
NotNbt == [type |-> "undefined", name |-> <<>>, value |-> <<>>]

TagId(t) ==
    CASE t = "byte" -> 1
      [] t = "short" -> 2
      [] t = "int" -> 3
      [] t = "float" -> 5
      [] t = "string" -> 8
      [] t = "compound" -> 10

TagTypes == {"byte", "short", "int", "float", "string", "compound"}

RECURSIVE WritePayload(_)
RECURSIVE WriteEntries(_)
\* the little-endian payload of one tag
WritePayload(tag) ==
    CASE tag.type = "byte" -> <<tag.value % 256>>
      [] tag.type = "short" -> UInt16LE(tag.value % 65536)
      [] tag.type = "int" -> Int32LE(tag.value)
      [] tag.type = "float" -> FloatLE(tag.value)
      [] tag.type = "string" -> UInt16LE(Len(tag.value)) \o tag.value
      [] tag.type = "compound" -> WriteEntries(tag.value) \o <<0>>

\* the named tags of a compound, in order
WriteEntries(es) ==
    IF es = <<>> THEN <<>>
    ELSE <<TagId(es[1].tag.type)>> \o UInt16LE(Len(es[1].key)) \o es[1].key
         \o WritePayload(es[1].tag) \o WriteEntries(Tail(es))

RECURSIVE WellTyped(_)
WellTyped(tag) ==
    /\ tag.type \in TagTypes
    /\ tag.type = "compound" => \A i \in 1..Len(tag.value) : WellTyped(tag.value[i].tag)

Thrown(e) == [ok |-> FALSE, bytes |-> <<>>, error |-> e]
Returned(b) == [ok |-> TRUE, bytes |-> b, error |-> <<>>]

\* nbt.writeUncompressed(data, 'little'): the root tag with its name, or an
\* exception when the object is no NBT compound
writeUncompressed(data) ==
    IF data.type = "compound" /\ WellTyped(data)
    THEN Returned(<<TagId("compound")>> \o UInt16LE(Len(data.name)) \o data.name
                  \o WritePayload(data))
    ELSE Thrown(<<"TypeError: ", data.type>>)

(***************************************************************************)
(* The codec wrapper                                                       *)
(***************************************************************************)
\* file type written in front of a level.dat
fileType == 10

\* a JavaScript condition on an argument that may be undefined
Truthy(v) == v = "true"

\* mutant: the size field counts the header too
fixLevelDat_TotalSize(dat) == Int32LE(fileType) \o Int32LE(Len(dat) + 8) \o dat

fixLevelDat(dat) == Int32LE(fileType) \o Int32LE(Len(dat)) \o dat

\* mutant: the header is added whatever isLevelDat is
parseStructure_AlwaysHeader(data, mode, isLevelDat) ==
    LET rawData == writeUncompressed(data)
    IN  IF ~rawData.ok THEN rawData ELSE Returned(fixLevelDat(rawData.bytes))

\* mutant: the header is added in 'structure' mode only
parseStructure_HeaderByMode(data, mode, isLevelDat) ==
    LET rawData == writeUncompressed(data)
    IN  IF ~rawData.ok THEN rawData
        ELSE IF Truthy(isLevelDat) /\ mode = "structure"
        THEN Returned(fixLevelDat(rawData.bytes))
        ELSE rawData

parseStructure(data, mode, isLevelDat) ==
    LET rawData == writeUncompressed(data)
    IN  IF ~rawData.ok THEN rawData
        ELSE IF Truthy(isLevelDat) THEN Returned(fixLevelDat(rawData.bytes))
        ELSE rawData

\* the Blob URL is represented by the bytes of the Blob it names
writeStructure(data, mode, isLevelDat) == parseStructure(data, mode, isLevelDat)

(***************************************************************************)
(* Reading NBT back (nbt.parse of prismarine-nbt, as the page calls it)    *)
(***************************************************************************)
Failed(pos) == [ok |-> FALSE, value |-> <<>>, pos |-> pos]
Read(v, pos) == [ok |-> TRUE, value |-> v, pos |-> pos]

\* Buffer.readFloatLE, on the bit patterns the drawn files hold
ReadFloatLE(b, i) ==
    CHOOSE f \in JsFloats : FloatLE(f) = SubSeq(b, i, i + 3)

RECURSIVE ReadPayload(_, _, _)
RECURSIVE ReadEntries(_, _, _)
\* the payload of a tag of type id tid, read from position pos of b
ReadPayload(b, pos, tid) ==
    CASE tid = 1 ->
           IF pos > Len(b) THEN Failed(pos)
           ELSE Read(Tag("byte", Signed(b[pos], 8)), pos + 1)
      [] tid = 2 ->
           IF pos + 1 > Len(b) THEN Failed(pos)
           ELSE Read(Tag("short", Signed(ReadUInt16LE(b, pos), 16)), pos + 2)
      [] tid = 3 ->
           IF pos + 3 > Len(b) THEN Failed(pos)
           ELSE Read(Tag("int", ReadInt32LE(b, pos)), pos + 4)
      [] tid = 5 ->
           IF pos + 3 > Len(b) THEN Failed(pos)
           ELSE Read(Tag("float", ReadFloatLE(b, pos)), pos + 4)
      [] tid = 8 ->
           IF pos + 1 > Len(b) \/ pos + 1 + ReadUInt16LE(b, pos) > Len(b) THEN Failed(pos)
           ELSE Read(Tag("string", SubSeq(b, pos + 2, pos + 1 + ReadUInt16LE(b, pos))),
                     pos + 2 + ReadUInt16LE(b, pos))
      [] tid = 10 ->
           LET es == ReadEntries(b, pos, <<>>)
           IN  IF es.ok THEN Read(Tag("compound", es.value), es.pos) ELSE es
      [] OTHER -> Failed(pos)

\* the named tags of a compound up to its end tag; acc holds those read so far
ReadEntries(b, pos, acc) ==
    IF pos > Len(b) THEN Failed(pos)
    ELSE IF b[pos] = 0 THEN Read(acc, pos + 1)
    ELSE IF pos + 2 > Len(b) \/ pos + 2 + ReadUInt16LE(b, pos + 1) > Len(b) THEN Failed(pos)
    ELSE LET klen == ReadUInt16LE(b, pos + 1)
             key == SubSeq(b, pos + 3, pos + 2 + klen)
             got == ReadPayload(b, pos + 3 + klen, b[pos])
         IN  IF got.ok THEN ReadEntries(b, got.pos, Append(acc, Entry(key, got.value)))
             ELSE got

\* a leading 4-byte integer below 256: the header of a Bedrock level.dat
hasBedrockLevelHeader(b) == Len(b) >= 4 /\ b[2] = 0 /\ b[3] = 0 /\ b[4] = 0

\* nbt.parse(Buffer.from(data)): skips a level.dat header, reads the root tag
\* little-endian and requires the whole buffer to be read; .value is the
\* `parsed` object, .ok is false when the promise rejects
nbtParse(b) ==
    LET start == IF hasBedrockLevelHeader(b) THEN 9 ELSE 1
    IN  IF start + 2 > Len(b) \/ start + 2 + ReadUInt16LE(b, start + 1) > Len(b)
        THEN [ok |-> FALSE, value |-> NotNbt, error |-> <<"Error: ", "unexpected end of buffer">>]
        ELSE LET nlen == ReadUInt16LE(b, start + 1)
                 got == ReadPayload(b, start + 3 + nlen, b[start])
             IN  IF got.ok /\ got.pos = Len(b) + 1
                 THEN [ok |-> TRUE,
                       value |-> [type |-> got.value.type,
                                  name |-> SubSeq(b, start + 3, start + 2 + nlen),
                                  value |-> got.value.value],
                       error |-> <<>>]
                 ELSE [ok |-> FALSE, value |-> NotNbt,
                       error |-> <<"Error: ", "cannot read tag">>]

(***************************************************************************)
(* JSON                                                                    *)
(***************************************************************************)
\* what JSON.stringify writes for a number and JSON.parse reads back:
\* NaN and Infinity are written as null, -0 as 0
JsonNumber(v) ==
    CASE v \in {"NaN", "Infinity", "null"} -> "null"
      [] v = "-0.0" -> "0.0"
      [] OTHER -> v

RECURSIVE JsonTag(_)
RECURSIVE JsonEntries(_)
JsonTag(tag) ==
    CASE tag.type = "float" -> Tag("float", JsonNumber(tag.value))
      [] tag.type = "compound" -> Tag("compound", JsonEntries(tag.value))
      [] OTHER -> tag

JsonEntries(es) ==
    IF es = <<>> THEN <<>>
    ELSE <<Entry(es[1].key, JsonTag(es[1].tag))>> \o JsonEntries(Tail(es))

\* the value a JSON text of obj denotes
JsonValue(obj) ==
    IF obj.type = "compound"
    THEN [type |-> obj.type, name |-> obj.name, value |-> JsonEntries(obj.value)]
    ELSE obj

\* a text: '' (kind "empty"), a JSON document with its indentation and the
\* value it denotes (kind "json"), or a text that is no JSON (kind "other")
EmptyText == [kind |-> "empty", indent |-> 0, value |-> NotNbt]
OtherText == [kind |-> "other", indent |-> 0, value |-> NotNbt]
JsonText(v, n) == [kind |-> "json", indent |-> n, value |-> v]

\* JSON.stringify(obj, null, indent)
JsonStringify(obj, indent) == JsonText(JsonValue(obj), indent)

\* JSON.parse(text)
JsonParse(text) ==
    IF text.kind = "json" THEN [ok |-> TRUE, value |-> text.value, error |-> <<>>]
    ELSE [ok |-> FALSE, value |-> NotNbt,
          error |-> <<"SyntaxError: ", "Unexpected end of JSON input">>]


(***************************************************************************)
(* History                                                                 *)
(***************************************************************************)
NoOut == [kind |-> "none", name |-> <<>>, bytes |-> <<>>]
Download(n, b) == [kind |-> "download", name |-> n, bytes |-> b]
Ev(op, arg, out) == [op |-> op, arg |-> arg, out |-> out]
NoEv == Ev("mount", <<>>, NoOut)

(***************************************************************************)
(* The snackbar (SnackbarContextProvider and GlobalSnackbar)               *)
(***************************************************************************)
Severities == {"error", "warning", "info", "success"}

\* the props <Snackbar> and <Alert> get; severity defaults to 'info'
GlobalSnackbar(open, msg, sev) ==
    [open |-> open, message |-> msg, severity |-> IF sev = "undefined" THEN "info" ELSE sev]

\* mutant: the snackbar is always rendered open
SnackbarRender_AlwaysOpen(msg, sev) == GlobalSnackbar(TRUE, msg, sev)

\* the render of the provider with state (msg, sev)
SnackbarRender(msg, sev) == GlobalSnackbar(msg # <<>>, msg, sev)

showSnackbar(msg, sev) ==
    /\ message' = msg
    /\ severity' = sev
    /\ snackProps' = SnackbarRender(msg, sev)

\* mutant: the message is kept
handleClose_KeepMessage ==
    /\ message' = message
    /\ severity' = severity
    /\ snackProps' = SnackbarRender(message, severity)

handleClose ==
    /\ message' = <<>>
    /\ severity' = severity
    /\ snackProps' = SnackbarRender(<<>>, severity)

SnackInit ==
    /\ message = <<>>
    /\ severity = "error"
    /\ snackProps = SnackbarRender(<<>>, "error")

\* autoHideDuration elapses while the snackbar is open: onClose(event, 'timeout')
AutoHide ==
    /\ snackProps.open
    /\ handleClose
    /\ ev' = Ev("handleClose", "timeout", NoOut)
    /\ UNCHANGED <<shellVars, codecVars, pageVars, itemVars>>

\* the user clicks outside the open snackbar: onClose(event, 'clickaway')
ClickAway ==
    /\ snackProps.open
    /\ handleClose
    /\ ev' = Ev("handleClose", "clickaway", NoOut)
    /\ UNCHANGED <<shellVars, codecVars, pageVars, itemVars>>

(***************************************************************************)
(* The converter page                                                      *)
(***************************************************************************)
Pages == {"original", "redesigned"}

\* a File: its name, its content as readAsArrayBuffer gives it and as
\* readAsText gives it
File(n, b, t) == [name |-> n, bytes |-> b, text |-> t]
NoFile == File("undefined", <<>>, EmptyText)

DataByte == Root(<<Entry(KeyA, Tag("byte", 1))>>)
DataNaN == Root(<<Entry(KeyF, Tag("float", "NaN"))>>)
DataFinite == Root(<<Entry(KeyF, Tag("float", "1.5"))>>)

\* a level.dat as the game writes it: storage version, length, payload
GameLevelDat(version, data) ==
    Int32LE(version) \o Int32LE(Len(writeUncompressed(data).bytes))
        \o writeUncompressed(data).bytes

\* the files the user drops
Files ==
    {File("house.mcstructure", writeUncompressed(DataByte).bytes, OtherText),
     File("house.mcstructure", writeUncompressed(DataNaN).bytes, OtherText),
     File("level.dat", GameLevelDat(10, DataFinite), OtherText),
     File("level.dat_old", GameLevelDat(9, DataByte), OtherText),
     File("broken.mcstructure", <<10, 0, 0, 99, 1, 0, 97, 1, 0>>, OtherText),
     File("edit.json", <<123, 125>>, JsonText(JsonValue(DataByte), 0))}

\* what the user types into the preview: a text that is no JSON, or JSON
\* that is no NBT
TypedTexts == {OtherText, JsonText(NotNbt, 0)}

\* what the user types into the file name field
TypedNames == {"out.mcstructure"}

PageInit ==
    /\ page \in Pages
    /\ selection = "structure"
    /\ fileName = "generated.mcstructure"
    /\ isError = FALSE
    /\ isLevelDatMode = FALSE
    /\ preview = EmptyText
    /\ acceptedFile = NoFile
    /\ reading = {}

loadSuccess(name) ==
    /\ showSnackbar(<<"Successfully loaded ", name>>, "success")
    /\ fileName' = name

\* mutant: the output file name is set when parsing fails too
loadStructure_NameOnFailure(data, name) ==
    LET got == nbtParse(data)
    IN  IF got.ok
        THEN /\ preview' = JsonStringify(got.value, 2)
             /\ isError' = FALSE
             /\ loadSuccess(name)
        ELSE /\ preview' = EmptyText
             /\ isError' = TRUE
             /\ showSnackbar(got.error, "error")
             /\ fileName' = name

loadStructure(data, name) ==
    LET got == nbtParse(data)
    IN  IF got.ok
        THEN /\ preview' = JsonStringify(got.value, 2)
             /\ isError' = FALSE
             /\ loadSuccess(name)
        ELSE /\ preview' = EmptyText
             /\ isError' = TRUE
             /\ showSnackbar(got.error, "error")
             /\ fileName' = fileName

loadText(data, name) ==
    /\ preview' = data
    /\ isError' = FALSE
    /\ loadSuccess(name)

LevelNames == {"level.dat", "level.dat_old"}

\* mutant: only the name level.dat enables level.dat mode
updatePreview_OnlyLevelDat(file, sel) ==
    IF file = NoFile
    THEN UNCHANGED <<reading, isLevelDatMode, snackVars>>
    ELSE IF sel = "structure"
    THEN /\ reading' = reading \cup {[file |-> file, as |-> "structure"]}
         /\ isLevelDatMode' = IF file.name = "level.dat" THEN TRUE ELSE isLevelDatMode
         /\ UNCHANGED snackVars
    ELSE /\ reading' = reading \cup {[file |-> file, as |-> "json"]}
         /\ UNCHANGED <<isLevelDatMode, snackVars>>

\* updatePreview(file) in a render whose selection is sel
updatePreview(file, sel) ==
    IF file = NoFile
    THEN UNCHANGED <<reading, isLevelDatMode, snackVars>>
    ELSE IF sel = "structure"
    THEN /\ reading' = reading \cup {[file |-> file, as |-> "structure"]}
         /\ isLevelDatMode' = IF file.name \in LevelNames THEN TRUE ELSE isLevelDatMode
         /\ UNCHANGED snackVars
    ELSE IF sel = "json"
    THEN /\ reading' = reading \cup {[file |-> file, as |-> "json"]}
         /\ UNCHANGED <<isLevelDatMode, snackVars>>
    ELSE /\ showSnackbar(<<"Received unexpected type: ", sel>>, "error")
         /\ UNCHANGED <<reading, isLevelDatMode>>

\* the dropzone accepts a file: acceptedFiles changes and the effect runs
Drop(f) ==
    /\ Cardinality(reading) < MaxReading
    /\ acceptedFile' = f
    /\ updatePreview(f, selection)
    /\ ev' = Ev("updatePreview", [name |-> f.name, selection |-> selection, by |-> "drop"], NoOut)
    /\ UNCHANGED <<page, selection, fileName, isError, preview>>
    /\ UNCHANGED <<shellVars, codecVars, itemVars>>

\* the radio group changes to another value: setSelection, and the effect
\* runs again in the render with the new selection
handleSelect(v) ==
    /\ v # selection
    /\ Cardinality(reading) < MaxReading \/ acceptedFile = NoFile
    /\ selection' = v
    /\ updatePreview(acceptedFile, v)
    /\ ev' = Ev("updatePreview", [name |-> acceptedFile.name, selection |-> v, by |-> "select"], NoOut)
    /\ UNCHANGED <<page, fileName, isError, preview, acceptedFile>>
    /\ UNCHANGED <<shellVars, codecVars, itemVars>>

\* the 'load' event of a FileReader
ReaderLoad(r) ==
    /\ r \in reading
    /\ reading' = reading \ {r}
    /\ IF r.as = "structure"
       THEN loadStructure(r.file.bytes, r.file.name)
       ELSE loadText(r.file.text, r.file.name)
    /\ ev' = Ev(IF r.as = "structure" THEN "loadStructure" ELSE "loadText",
                [name |-> r.file.name, bytes |-> r.file.bytes], NoOut)
    /\ UNCHANGED <<page, selection, isLevelDatMode, acceptedFile>>
    /\ UNCHANGED <<shellVars, codecVars, itemVars>>

JsBool(b) == IF b THEN "true" ELSE "false"

EmptyPreviewError ==
    IF page = "redesigned" THEN <<"Error: ", "Please put valid JSON in the preview area">>
    ELSE <<"Error: ", "Please put valid JSON">>

\* generateStructure(selection, isLevelDat): the download it triggers, or
\* the exception it throws
generateStructure(sel, isLevelDat) ==
    IF preview = EmptyText THEN Thrown(EmptyPreviewError)
    ELSE IF ~JsonParse(preview).ok THEN Thrown(JsonParse(preview).error)
    ELSE writeStructure(JsonParse(preview).value, sel, JsBool(isLevelDat))

\* mutant: the success notification is shown whatever generateStructure does
handleGenerate_AlwaysSuccess ==
    LET got == generateStructure(selection, isLevelDatMode)
    IN  /\ ev' = Ev("handleGenerate", <<>>,
                    IF got.ok THEN Download(fileName, got.bytes) ELSE NoOut)
        /\ showSnackbar(<<"File generated successfully!">>, "success")
        /\ UNCHANGED pageVars
        /\ UNCHANGED <<shellVars, codecVars, itemVars>>

handleGenerate ==
    LET got == generateStructure(selection, isLevelDatMode)
    IN  /\ IF got.ok
           THEN /\ ev' = Ev("handleGenerate", <<>>, Download(fileName, got.bytes))
                /\ IF page = "redesigned"
                   THEN showSnackbar(<<"File generated successfully!">>, "success")
                   ELSE UNCHANGED snackVars
           ELSE /\ ev' = Ev("handleGenerate", <<>>, NoOut)
                /\ showSnackbar(got.error, "error")
        /\ UNCHANGED pageVars
        /\ UNCHANGED <<shellVars, codecVars, itemVars>>

formatPreview ==
    /\ IF selection = "structure" \/ selection = "json"
       THEN IF JsonParse(preview).ok
            THEN /\ preview' = JsonStringify(JsonParse(preview).value, 2)
                 /\ showSnackbar(IF page = "redesigned" THEN <<"JSON formatted successfully!">>
                                 ELSE <<"Formatted!">>, "success")
            ELSE /\ preview' = preview
                 /\ showSnackbar(IF page = "redesigned"
                                 THEN <<"ParseError: Failed to parse JSON in preview">>
                                 ELSE <<"ParseError: failed to parse JSON in preview">>, "error")
       ELSE UNCHANGED <<preview, snackVars>>
    /\ ev' = Ev("formatPreview", <<>>, NoOut)
    /\ UNCHANGED <<page, selection, fileName, isError, isLevelDatMode, acceptedFile, reading>>
    /\ UNCHANGED <<shellVars, codecVars, itemVars>>

handleCopy ==
    /\ IF preview # EmptyText
       THEN /\ showSnackbar(IF page = "redesigned" THEN <<"Copied to clipboard!">> ELSE <<"Copied!">>,
                            IF page = "redesigned" THEN "success" ELSE "info")
            /\ ev' = Ev("handleCopy", <<>>, [kind |-> "clipboard", name |-> <<>>, bytes |-> <<>>])
       ELSE /\ showSnackbar(<<"There is nothing to copy!">>, "warning")
            /\ ev' = Ev("handleCopy", <<>>, NoOut)
    /\ UNCHANGED pageVars
    /\ UNCHANGED <<shellVars, codecVars, itemVars>>

clearPreview ==
    /\ preview' = EmptyText
    /\ ev' = Ev("clearPreview", <<>>, NoOut)
    /\ UNCHANGED <<page, selection, fileName, isError, isLevelDatMode, acceptedFile, reading>>
    /\ UNCHANGED <<shellVars, codecVars, snackVars, itemVars>>

\* the user edits the textarea
TypePreview(t) ==
    /\ preview' = t
    /\ ev' = Ev("typePreview", <<>>, NoOut)
    /\ UNCHANGED <<page, selection, fileName, isError, isLevelDatMode, acceptedFile, reading>>
    /\ UNCHANGED <<shellVars, codecVars, snackVars, itemVars>>

\* onChange of the file name field
FileNameEdit(n) ==
    /\ fileName' = n
    /\ ev' = Ev("setFileName", n, NoOut)
    /\ UNCHANGED <<page, selection, isError, isLevelDatMode, preview, acceptedFile, reading>>
    /\ UNCHANGED <<shellVars, codecVars, snackVars, itemVars>>

\* onChange of the level.dat mode checkbox
LevelDatCheckBox(checked) ==
    /\ isLevelDatMode' = checked
    /\ ev' = Ev("setLevelDatMode", checked, NoOut)
    /\ UNCHANGED <<page, selection, fileName, isError, preview, acceptedFile, reading>>
    /\ UNCHANGED <<shellVars, codecVars, snackVars, itemVars>>


(***************************************************************************)
(* Enchantments                                                            *)
(***************************************************************************)
\* mutant: the last entry of the table is missing
EnchantmentTypes_NoSwiftSneak ==
    0 :> "protection" @@ 1 :> "fire_protection" @@ 2 :> "feather_falling" @@
    3 :> "blast_protection" @@ 4 :> "projectile_protection" @@ 5 :> "thorns" @@
    6 :> "respiration" @@ 7 :> "depth_strider" @@ 8 :> "aqua_affinity" @@
    9 :> "sharpness" @@ 10 :> "smite" @@ 11 :> "bane_of_arthropods" @@
    12 :> "knockback" @@ 13 :> "fire_aspect" @@ 14 :> "looting" @@
    15 :> "efficiency" @@ 16 :> "silk_touch" @@ 17 :> "unbreaking" @@
    18 :> "fortune" @@ 19 :> "power" @@ 20 :> "punch" @@
    21 :> "flame" @@ 22 :> "infinity" @@ 23 :> "luck_of_the_sea" @@
    24 :> "lure" @@ 25 :> "frost_walker" @@ 26 :> "mending" @@
    27 :> "binding_curse" @@ 28 :> "vanishing_curse" @@ 29 :> "impaling" @@
    30 :> "riptide" @@ 31 :> "loyalty" @@ 32 :> "channeling" @@
    33 :> "multishot" @@ 34 :> "piercing" @@ 35 :> "quick_charge" @@
    36 :> "soul_speed"

\* the table of enchantment ids and names
EnchantmentTypes ==
    0 :> "protection" @@ 1 :> "fire_protection" @@ 2 :> "feather_falling" @@
    3 :> "blast_protection" @@ 4 :> "projectile_protection" @@ 5 :> "thorns" @@
    6 :> "respiration" @@ 7 :> "depth_strider" @@ 8 :> "aqua_affinity" @@
    9 :> "sharpness" @@ 10 :> "smite" @@ 11 :> "bane_of_arthropods" @@
    12 :> "knockback" @@ 13 :> "fire_aspect" @@ 14 :> "looting" @@
    15 :> "efficiency" @@ 16 :> "silk_touch" @@ 17 :> "unbreaking" @@
    18 :> "fortune" @@ 19 :> "power" @@ 20 :> "punch" @@
    21 :> "flame" @@ 22 :> "infinity" @@ 23 :> "luck_of_the_sea" @@
    24 :> "lure" @@ 25 :> "frost_walker" @@ 26 :> "mending" @@
    27 :> "binding_curse" @@ 28 :> "vanishing_curse" @@ 29 :> "impaling" @@
    30 :> "riptide" @@ 31 :> "loyalty" @@ 32 :> "channeling" @@
    33 :> "multishot" @@ 34 :> "piercing" @@ 35 :> "quick_charge" @@
    36 :> "soul_speed" @@ 37 :> "swift_sneak"

\* a property name of the table: the decimal digits of the id
Digits(n) == IF n < 10 THEN <<n>> ELSE <<n \div 10, n % 10>>

\* Object.keys(EnchantmentTypes): the ids as strings
ObjectKeys(obj) == {Digits(n) : n \in DOMAIN obj}

\* Number(key) of a string of decimal digits
Number(key) == IF Len(key) = 1 THEN key[1] ELSE 10 * key[1] + key[2]

\* the strings of one or two decimal digits
KeyStrings == {<<a>> : a \in 0..9} \cup {<<a, b>> : a \in 1..9, b \in 0..9}

\* the id of createEnchant() called without arguments
IdUndefined == -1

\* createEnchant(id, level = 1)
createEnchant(id) == [id |-> id, lvl |-> 1]

(***************************************************************************)
(* The item generator page                                                 *)
(***************************************************************************)
\* maximum number of items that fit in a chest
MAX_COUNT == 27

\* useState(false) of expand: no accordion is expanded
ExpandFalse == -1

\* createItem(typeId): the fields the page changes (Name, Slot, and under
\* tag the display name and the enchantments, both absent at first; an
\* absent ench is the empty list)
createItem(typeId) == [Name |-> typeId, Slot |-> 0, display |-> "undefined", ench |-> <<>>]

ItemsInit ==
    /\ items = <<createItem("minecraft:diamond")>>
    /\ expand = ExpandFalse
    /\ itemList = <<>>
    /\ itemListIsItems = FALSE

\* mutant: the effect does not run
SlotEffect_None(list) == list

\* the effect on items.length: every item gets its index as slot
SlotEffect(list) == [i \in 1..Len(list) |-> [list[i] EXCEPT !.Slot = i - 1]]

RemoveAt(list, k) == SubSeq(list, 1, k - 1) \o SubSeq(list, k + 1, Len(list))

\* the template's elements after the state's objects were changed in place
Shared(tl, its) ==
    [j \in 1..Len(tl) |-> IF tl[j].ref > 0 THEN [tl[j] EXCEPT !.item = its[tl[j].ref]] ELSE tl[j]]

\* the template's references after the object at position k left the state
Unref(tl, k) ==
    [j \in 1..Len(tl) |->
        [tl[j] EXCEPT !.ref = IF @ = k THEN 0 ELSE IF @ > k THEN @ - 1 ELSE @]]

\* mutant: the full chest is detected one item late
addItem_OffByOne ==
    /\ IF Len(items) > MAX_COUNT
       THEN /\ showSnackbar(<<"The max size of container is ", MAX_COUNT>>, "error")
            /\ UNCHANGED itemVars
       ELSE LET newList == Append(items, createItem(""))
            IN  /\ items' = SlotEffect(newList)
                /\ expand' = Len(newList) - 1
                /\ itemList' = Shared(itemList, items')
                /\ itemListIsItems' = FALSE
                /\ UNCHANGED snackVars
    /\ ev' = Ev("addItem", Len(items), NoOut)
    /\ UNCHANGED <<shellVars, codecVars, pageVars>>

addItem ==
    /\ IF Len(items) >= MAX_COUNT
       THEN /\ showSnackbar(<<"The max size of container is ", MAX_COUNT>>, "error")
            /\ UNCHANGED itemVars
       ELSE LET newList == Append(items, createItem(""))
            IN  /\ items' = SlotEffect(newList)
                /\ expand' = Len(newList) - 1
                /\ itemList' = Shared(itemList, items')
                /\ itemListIsItems' = FALSE
                /\ UNCHANGED snackVars
    /\ ev' = Ev("addItem", Len(items), NoOut)
    /\ UNCHANGED <<shellVars, codecVars, pageVars>>

\* <Accordion expanded={expand === i}> of the item at index i
AccordionExpanded(e, i) == e = i

\* mutant: an expanded accordion is not collapsed
handleExpand_NoCollapse(i) ==
    /\ expand' = i
    /\ ev' = Ev("handleExpand", i, NoOut)
    /\ UNCHANGED <<items, itemList, itemListIsItems>>
    /\ UNCHANGED <<shellVars, codecVars, snackVars, pageVars>>

handleExpand(i) ==
    /\ expand' = IF expand = i THEN ExpandFalse ELSE i
    /\ ev' = Ev("handleExpand", i, NoOut)
    /\ UNCHANGED <<items, itemList, itemListIsItems>>
    /\ UNCHANGED <<shellVars, codecVars, snackVars, pageVars>>

\* deleteItem(e, index): splices the state's array in place, then copies it
deleteItem(index) ==
    LET spliced == RemoveAt(items, index + 1)
        templ == IF itemListIsItems THEN RemoveAt(itemList, index + 1) ELSE itemList
    IN  /\ items' = SlotEffect(spliced)
        /\ itemList' = Shared(Unref(templ, index + 1), items')
        /\ itemListIsItems' = FALSE
        /\ expand' = expand
        /\ ev' = Ev("deleteItem", index, NoOut)
        /\ UNCHANGED <<shellVars, codecVars, snackVars, pageVars>>

\* changeValue(value, id, index) for id 'id' and 'name'
changeValue(value, id, index) ==
    /\ items' = [items EXCEPT ![index + 1] =
                    IF id = "id" THEN [@ EXCEPT !.Name = value]
                    ELSE IF id = "name"
                    THEN [@ EXCEPT !.display = IF value = "" THEN "undefined" ELSE value]
                    ELSE @]
    /\ itemList' = Shared(itemList, items')
    /\ itemListIsItems' = FALSE
    /\ expand' = expand
    /\ ev' = Ev("changeValue", <<value, id, index>>, NoOut)
    /\ UNCHANGED <<shellVars, codecVars, snackVars, pageVars>>

\* changeEnchant(enchants, i): an empty list removes the ench tag
changeEnchant(enchants, i) ==
    /\ items' = [items EXCEPT ![i + 1].ench = enchants]
    /\ itemList' = Shared(itemList, items')
    /\ itemListIsItems' = FALSE
    /\ expand' = expand
    /\ UNCHANGED <<shellVars, codecVars, snackVars, pageVars>>

\* onClick of the add button of the enchantments of item i
AddEnchantClick(i) ==
    /\ Len(items[i + 1].ench) < MaxEnchants
    /\ changeEnchant(Append(items[i + 1].ench, createEnchant(IdUndefined)), i)
    /\ ev' = Ev("addEnchant", i, NoOut)

\* onChange of the Select of enchantment enchIndex of item i: the menu
\* holds one MenuItem per key of the table
EnchantSelect(i, enchIndex, key) ==
    /\ key \in ObjectKeys(EnchantmentTypes)
    /\ changeEnchant([items[i + 1].ench EXCEPT ![enchIndex + 1].id = Number(key)], i)
    /\ ev' = Ev("selectEnchant", <<i, enchIndex, key>>, NoOut)

\* onClick of the remove button of enchantment enchIndex of item i
RemoveEnchantClick(i, enchIndex) ==
    /\ changeEnchant(RemoveAt(items[i + 1].ench, enchIndex + 1), i)
    /\ ev' = Ev("removeEnchant", <<i, enchIndex>>, NoOut)

\* mutant: the template keeps the list it had
updateList_Stale == itemList

\* updateList(): itemList.value = items
updateList == [j \in 1..Len(items) |-> [ref |-> j, item |-> items[j]]]

\* JSON.parse(JSON.stringify(template)), on the Items of the template: the
\* copies share nothing with the state and properties that are undefined
\* are dropped
JsonItems(tl) ==
    [j \in 1..Len(tl) |->
        [ref |-> 0,
         item |-> LET it == tl[j].item
                      kept == {"Name", "Slot"}
                                \cup (IF it.display = "undefined" THEN {} ELSE {"display"})
                                \cup (IF it.ench = <<>> THEN {} ELSE {"ench"})
                  IN  [f \in kept |-> it[f]]]]

\* onClick of 'Export as structure'
ExportStructureClick ==
    /\ Len(items) <= MaxExportLen
    /\ itemList' = updateList
    /\ itemListIsItems' = TRUE
    /\ ev' = Ev("exportStructure", JsonItems(itemList'), [kind |-> "download", name |-> <<"export", ".mcstructure">>, bytes |-> <<>>])
    /\ UNCHANGED <<items, expand>>
    /\ UNCHANGED <<shellVars, codecVars, snackVars, pageVars>>

\* onClick of 'Export as JSON'
ExportJsonClick ==
    /\ Len(items) <= MaxExportLen
    /\ itemList' = updateList
    /\ itemListIsItems' = TRUE
    /\ ev' = Ev("exportJson", itemList', [kind |-> "download", name |-> <<"export", ".json">>, bytes |-> <<>>])
    /\ UNCHANGED <<items, expand>>
    /\ UNCHANGED <<shellVars, codecVars, snackVars, pageVars>>

DeleteIndexes == {0, Len(items) - 1} \cup (IF Len(items) <= MaxMidLen THEN 0..(Len(items) - 1) ELSE {})

EditIndexes == {i \in 0..(Len(items) - 1) : i < MaxEditIndex}

(***************************************************************************)
(* The application shell: App, analytics and Header                        *)
(***************************************************************************)
\* the values of NEXT_PUBLIC_GA_ID || "": unset, or a measurement id
TrackingIds == {"", "G-TEST"}

\* the urls of the two pages
Urls == {"/", "/items"}

\* Analytics(): the scripts it renders
Analytics ==
    IF GA_TRACKING_ID # ""
    THEN <<[id |-> "load",
            src |-> <<"https://www.googletagmanager.com/gtag/js?id=", GA_TRACKING_ID>>],
           [id |-> "ga", config |-> GA_TRACKING_ID]>>
    ELSE <<>>

\* mutant: the page view is sent whatever the tracking id is
pageview_Unguarded(url) ==
    <<[cmd |-> "config", id |-> GA_TRACKING_ID, page_path |-> url]>>

\* pageview(url): the calls of window.gtag it makes
pageview(url) ==
    IF GA_TRACKING_ID = "" THEN <<>>
    ELSE <<[cmd |-> "config", id |-> GA_TRACKING_ID, page_path |-> url]>>

\* window.gtag(...) for each of calls: pushed on dataLayer by the function
\* the inline script defines; before that script ran window.gtag is
\* undefined and the call throws a TypeError
Gtag(calls) == IF gtagLoaded THEN dataLayer \o calls ELSE dataLayer

\* the effect of App: subscribes handleRouteChange unless the id is empty
AppEffect(n) == IF GA_TRACKING_ID = "" THEN n ELSE n + 1

\* the cleanup the effect returned (none when it returned early)
AppCleanup(n) == IF GA_TRACKING_ID = "" THEN n ELSE n - 1

\* what one event handed to analytics: the pageview calls made, the gtag
\* calls these made and whether one of them threw
Tracked(urls, calls) ==
    [kind |-> "analytics", pageviews |-> urls, gtag |-> calls,
     thrown |-> calls # <<>> /\ ~gtagLoaded]

ShellInit ==
    /\ GA_TRACKING_ID \in TrackingIds
    /\ appMounted = TRUE
    /\ listeners = AppEffect(0)
    /\ gtagLoaded = FALSE
    /\ dataLayer = <<>>
    /\ route = "/"
    /\ menuOpened = FALSE
    /\ menuQueue = <<>>
    /\ drawerMounted = FALSE

\* the two scripts have loaded (strategy afterInteractive): the inline one
\* defines gtag and sends 'js' and 'config'
ScriptLoad ==
    /\ Analytics # <<>>
    /\ ~gtagLoaded
    /\ gtagLoaded' = TRUE
    /\ dataLayer' = dataLayer \o <<[cmd |-> "js", id |-> "", page_path |-> ""],
                                  [cmd |-> "config", id |-> Analytics[2].config,
                                   page_path |-> route]>>
    /\ ev' = Ev("scriptLoad", <<>>, NoOut)
    /\ UNCHANGED <<GA_TRACKING_ID, appMounted, listeners, route, menuOpened, menuQueue,
                   drawerMounted>>
    /\ UNCHANGED <<codecVars, snackVars, pageVars, itemVars>>

\* the cleanup of the effect of App runs
AppUnmount ==
    /\ appMounted
    /\ appMounted' = FALSE
    /\ listeners' = AppCleanup(listeners)
    /\ ev' = Ev("appUnmount", <<>>, NoOut)
    /\ UNCHANGED <<GA_TRACKING_ID, gtagLoaded, dataLayer, route, menuOpened, menuQueue,
                   drawerMounted>>
    /\ UNCHANGED <<codecVars, snackVars, pageVars, itemVars>>

\* the effect of App runs (again)
AppMount ==
    /\ ~appMounted
    /\ appMounted' = TRUE
    /\ listeners' = AppEffect(listeners)
    /\ ev' = Ev("appMount", <<>>, NoOut)
    /\ UNCHANGED <<GA_TRACKING_ID, gtagLoaded, dataLayer, route, menuOpened, menuQueue,
                   drawerMounted>>
    /\ UNCHANGED <<codecVars, snackVars, pageVars, itemVars>>

RECURSIVE Repeat(_, _)
Repeat(s, n) == IF n <= 0 THEN <<>> ELSE s \o Repeat(s, n - 1)

\* the router emits routeChangeComplete(url): every subscribed
\* handleRouteChange calls pageview(url); the Header of the page that is
\* left is unmounted and the one of the page that is entered starts closed
RouteChangeComplete(url) ==
    /\ Len(dataLayer) < MaxDataLayer
    /\ route' = url
    /\ dataLayer' = Gtag(Repeat(pageview(url), listeners))
    /\ ev' = Ev("routeChangeComplete", url,
                Tracked(Repeat(<<url>>, listeners), Repeat(pageview(url), listeners)))
    /\ IF url # route
       THEN /\ menuOpened' = FALSE
            /\ menuQueue' = <<>>
            /\ drawerMounted' = FALSE
       ELSE UNCHANGED <<menuOpened, menuQueue, drawerMounted>>
    /\ UNCHANGED <<GA_TRACKING_ID, appMounted, listeners, gtagLoaded>>
    /\ UNCHANGED <<codecVars, snackVars, pageVars, itemVars>>

\* a call of the exported pageview
PageviewCall(url) ==
    /\ Len(dataLayer) < MaxDataLayer
    /\ dataLayer' = Gtag(pageview(url))
    /\ ev' = Ev("pageview", url, Tracked(<<url>>, pageview(url)))
    /\ UNCHANGED <<GA_TRACKING_ID, appMounted, listeners, gtagLoaded, route, menuOpened,
                   menuQueue, drawerMounted>>
    /\ UNCHANGED <<codecVars, snackVars, pageVars, itemVars>>

\* handleClick of the render in place: setMenuOpened(!menuOpened)
handleClick == Append(menuQueue, ~menuOpened)

\* onClick of the hamburger button, which an open or closing drawer covers
MenuButtonClick ==
    /\ ~drawerMounted
    /\ Len(menuQueue) < MaxPending
    /\ menuQueue' = handleClick
    /\ ev' = Ev("menuButton", <<>>, NoOut)
    /\ UNCHANGED <<GA_TRACKING_ID, appMounted, listeners, gtagLoaded, dataLayer, route,
                   menuOpened, drawerMounted>>
    /\ UNCHANGED <<codecVars, snackVars, pageVars, itemVars>>

\* onClick of the close button of Menu: onClose
CloseButtonClick ==
    /\ drawerMounted
    /\ Len(menuQueue) < MaxPending
    /\ menuQueue' = handleClick
    /\ ev' = Ev("closeButton", <<>>, NoOut)
    /\ UNCHANGED <<GA_TRACKING_ID, appMounted, listeners, gtagLoaded, dataLayer, route,
                   menuOpened, drawerMounted>>
    /\ UNCHANGED <<codecVars, snackVars, pageVars, itemVars>>

\* a click outside the drawer's paper: onClose(event, 'backdropClick')
BackdropClick ==
    /\ drawerMounted
    /\ Len(menuQueue) < MaxPending
    /\ menuQueue' = handleClick
    /\ ev' = Ev("backdropClick", <<>>, NoOut)
    /\ UNCHANGED <<GA_TRACKING_ID, appMounted, listeners, gtagLoaded, dataLayer, route,
                   menuOpened, drawerMounted>>
    /\ UNCHANGED <<codecVars, snackVars, pageVars, itemVars>>

\* Header renders with the queued updates applied; an open Drawer mounts
\* its content
HeaderRender ==
    /\ menuQueue # <<>>
    /\ menuOpened' = menuQueue[Len(menuQueue)]
    /\ menuQueue' = <<>>
    /\ drawerMounted' = (drawerMounted \/ menuOpened')
    /\ ev' = Ev("render", <<>>, NoOut)
    /\ UNCHANGED <<GA_TRACKING_ID, appMounted, listeners, gtagLoaded, dataLayer, route>>
    /\ UNCHANGED <<codecVars, snackVars, pageVars, itemVars>>

\* the exit transition of a closed Drawer ends: its content is unmounted
DrawerExited ==
    /\ drawerMounted
    /\ ~menuOpened
    /\ menuQueue = <<>>
    /\ drawerMounted' = FALSE
    /\ ev' = Ev("exited", <<>>, NoOut)
    /\ UNCHANGED <<GA_TRACKING_ID, appMounted, listeners, gtagLoaded, dataLayer, route,
                   menuOpened, menuQueue>>
    /\ UNCHANGED <<codecVars, snackVars, pageVars, itemVars>>

(***************************************************************************)
(* Codec calls                                                             *)
(***************************************************************************)
Modes == {"structure", "json", "undefined", "other"}
LevelDatArgs == {"true", "false", "undefined"}

NoCall == [fn |-> "none", data |-> NotNbt, mode |-> "undefined", isLevelDat |-> "undefined"]

CodecInit ==
    /\ cArgs = NoCall
    /\ cResult = Returned(<<>>)
    /\ cPrev = [args |-> NoCall, result |-> Returned(<<>>)]

\* the call before a call of fn(d, mode, lvl), when the two differ in mode
\* at most
Before(fn, d, lvl) ==
    IF cArgs.fn = fn /\ cArgs.data = d /\ cArgs.isLevelDat = lvl
    THEN [args |-> cArgs, result |-> cResult]
    ELSE [args |-> NoCall, result |-> Returned(<<>>)]

ParseStructureCall(d, mode, lvl) ==
    /\ cArgs' = [fn |-> "parseStructure", data |-> d, mode |-> mode, isLevelDat |-> lvl]
    /\ cResult' = parseStructure(d, mode, lvl)
    /\ cPrev' = Before("parseStructure", d, lvl)
    /\ UNCHANGED <<snackVars, pageVars, itemVars, shellVars, ev>>

WriteStructureCall(d, mode, lvl) ==
    /\ cArgs' = [fn |-> "writeStructure", data |-> d, mode |-> mode, isLevelDat |-> lvl]
    /\ cResult' = writeStructure(d, mode, lvl)
    /\ cPrev' = Before("writeStructure", d, lvl)
    /\ UNCHANGED <<snackVars, pageVars, itemVars, shellVars, ev>>

(***************************************************************************)
(* Specifications                                                          *)
(***************************************************************************)
Init ==
    /\ CodecInit /\ SnackInit /\ PageInit /\ ItemsInit /\ ShellInit /\ ev = NoEv
    /\ GA_TRACKING_ID = ""

\* the same with the tracking id set or not, and the original version of
\* the converter page
InitShell ==
    /\ CodecInit /\ SnackInit /\ PageInit /\ ItemsInit /\ ShellInit /\ ev = NoEv
    /\ page = "original"

\* the same with the original version of the converter page
InitOriginal == Init /\ page = "original"

\* the same with the data and the isLevelDat of the codec calls drawn from
\* bounded sets
InitCodec ==
    /\ SnackInit /\ PageInit /\ ItemsInit /\ ShellInit /\ ev = NoEv
    /\ page = "original"
    /\ GA_TRACKING_ID = ""
    /\ \E d \in NbtData \cup {NotNbt}, l \in LevelDatArgs :
          cArgs = [NoCall EXCEPT !.data = d, !.isLevelDat = l]
    /\ cResult = Returned(<<>>)
    /\ cPrev = [args |-> NoCall, result |-> Returned(<<>>)]

\* calls of the codec on the drawn data and isLevelDat, with mode drawn
\* from a bounded set
CodecNext ==
    \/ \E m \in Modes : ParseStructureCall(cArgs.data, m, cArgs.isLevelDat)
    \/ \E m \in Modes : WriteStructureCall(cArgs.data, m, cArgs.isLevelDat)

SpecCodec == InitCodec /\ [][CodecNext]_vars

\* the converter page under the snackbar provider
ConverterNext ==
    \/ \E f \in Files : Drop(f)
    \/ \E v \in {"structure", "json"} : handleSelect(v)
    \/ \E r \in reading : ReaderLoad(r)
    \/ handleGenerate
    \/ formatPreview
    \/ handleCopy
    \/ clearPreview
    \/ \E t \in TypedTexts : TypePreview(t)
    \/ \E n \in TypedNames : FileNameEdit(n)
    \/ \E c \in BOOLEAN : LevelDatCheckBox(c)
    \/ AutoHide
    \/ ClickAway

SpecConverter == Init /\ [][ConverterNext]_vars

\* the timer of an open snackbar eventually fires
FairConverter == SpecConverter /\ WF_vars(AutoHide)

\* the item generator page under the snackbar provider: items are added,
\* deleted, expanded and exported
ItemsNext ==
    \/ addItem
    \/ \E i \in 0..(Len(items) - 1) : handleExpand(i)
    \/ \E i \in DeleteIndexes : i \in 0..(Len(items) - 1) /\ deleteItem(i)
    \/ ExportStructureClick
    \/ ExportJsonClick
    \/ AutoHide
    \/ ClickAway

SpecItems == InitOriginal /\ [][ItemsNext]_vars

\* the item generator page with lists of up to MaxListLen items, which are
\* also edited
EditNext ==
    \/ Len(items) < MaxListLen /\ addItem
    \/ \E i \in 0..(Len(items) - 1) : deleteItem(i)
    \/ \E i \in EditIndexes : changeValue("minecraft:stick", "id", i)
    \/ \E i \in EditIndexes, v \in {"Excalibur", ""} : changeValue(v, "name", i)
    \/ ExportStructureClick
    \/ ExportJsonClick

SpecEdit == InitOriginal /\ [][EditNext]_vars

\* the item generator page with the enchantments of its items edited
EnchantNext ==
    \/ \E i \in 0..(Len(items) - 1) : AddEnchantClick(i)
    \/ \E i \in 0..(Len(items) - 1), k \in 0..(MaxEnchants - 1), key \in KeyStrings :
            k < Len(items[i + 1].ench) /\ EnchantSelect(i, k, key)
    \/ \E i \in 0..(Len(items) - 1), k \in 0..(MaxEnchants - 1) :
            k < Len(items[i + 1].ench) /\ RemoveEnchantClick(i, k)
    \/ ExportJsonClick

SpecEnchant == InitOriginal /\ [][EnchantNext]_vars

\* the shell of the application: analytics and the drawer of Header; the
\* pages stay as they are mounted
ShellNext ==
    \/ ScriptLoad
    \/ AppUnmount
    \/ AppMount
    \/ \E url \in Urls : RouteChangeComplete(url)
    \/ \E url \in Urls : PageviewCall(url)
    \/ MenuButtonClick
    \/ CloseButtonClick
    \/ BackdropClick
    \/ HeaderRender
    \/ DrawerExited

SpecShell == InitShell /\ [][ShellNext]_vars

(***************************************************************************)
(* Claims                                                                  *)
(***************************************************************************)
\* a buffer that starts with the level.dat header: the 32-bit little-endian
\* 10, then the 32-bit little-endian length of what follows the header
HasLevelHeader(b) ==
    /\ Len(b) >= 8
    /\ SubSeq(b, 1, 4) = <<10, 0, 0, 0>>
    /\ ReadInt32LE(b, 5) = Len(b) - 8

\* C1: with isLevelDat true, parseStructure returns 8 header bytes followed
\* by the writer's payload P: bytes 0-3 are 10 as a little-endian int32,
\* bytes 4-7 are length(P), bytes 8.. are P, so the length is length(P) + 8.
C1_LevelDatHeader ==
    (cArgs.fn = "parseStructure" /\ cArgs.isLevelDat = "true"
        /\ writeUncompressed(cArgs.data).ok) =>
    LET P == writeUncompressed(cArgs.data).bytes
        R == cResult.bytes
    IN  /\ cResult.ok
        /\ Len(R) = Len(P) + 8
        /\ R[1] = 10 /\ R[2] = 0 /\ R[3] = 0 /\ R[4] = 0
        /\ R[5] + 256 * R[6] + 65536 * R[7] + 16777216 * R[8] = Len(P)
        /\ SubSeq(R, 9, Len(R)) = P

\* a call with isLevelDat true on a payload of more than 255 bytes
C1_Witness ==
    /\ cArgs.fn = "parseStructure"
    /\ cArgs.isLevelDat = "true"
    /\ cResult.ok
    /\ Len(cResult.bytes) > 263
    /\ cResult.bytes[6] = 1

\* C2: with isLevelDat false or not given, parseStructure returns exactly
\* what the writer produced: no header, no byte changed.
C2_NoHeader ==
    (cArgs.fn = "parseStructure" /\ cArgs.isLevelDat \in {"false", "undefined"}) =>
        cResult = writeUncompressed(cArgs.data)

\* a call without isLevelDat that returned a payload
C2_Witness ==
    /\ cArgs.fn = "parseStructure"
    /\ cArgs.isLevelDat = "undefined"
    /\ cResult.ok
    /\ Len(cResult.bytes) > 4

\* C3: a structure file that parses, loaded in 'structure' mode and
\* generated without editing the preview, yields a file that parses to the
\* same tree; with level.dat mode on (as loading a file named level.dat
\* leaves it) the generated file carries the 8-byte header.
C3_RoundTrip ==
    [][(ev.op = "loadStructure" /\ nbtParse(ev.arg.bytes).ok /\ ev'.op = "handleGenerate") =>
          /\ ev'.out.kind = "download"
          /\ nbtParse(ev'.out.bytes).ok
          /\ nbtParse(ev'.out.bytes).value = nbtParse(ev.arg.bytes).value
          /\ (ev.arg.name = "level.dat" /\ isLevelDatMode) => HasLevelHeader(ev'.out.bytes)]_vars

\* C4: the item list never holds more than 27 items, and addItem on a list
\* of 27 shows an error snackbar and leaves the list and expand unchanged.
C4_MaxItems ==
    /\ [](Len(items) <= 27)
    /\ [][(ev'.op = "addItem" /\ Len(items) = 27) =>
             /\ items' = items
             /\ expand' = expand
             /\ snackProps'.open
             /\ snackProps'.severity = "error"
             /\ message' = <<"The max size of container is ", 27>>]_vars

\* addItem was called on a list of 27 items
C4_Witness ==
    /\ ev.op = "addItem"
    /\ ev.arg = 27
    /\ Len(items) = 27
    /\ snackProps.open

\* C5: after any sequence of addItem and deleteItem, once the slot effect
\* has run, the item at list index i has Slot.value = i (distinct,
\* contiguous from 0, at most 26); so have the items an export hands over.
C5_Slots ==
    /\ \A i \in 1..Len(items) : items[i].Slot = i - 1 /\ items[i].Slot <= 26
    /\ ev.op \in {"exportStructure", "exportJson"} =>
          \A j \in 1..Len(ev.arg) : ev.arg[j].item.Slot = j - 1

\* the first of at least three items was deleted and the rest renumbered
C5_Witness ==
    /\ ev.op = "deleteItem"
    /\ ev.arg = 0
    /\ Len(items) >= 2
    /\ items[1].Name = ""
    /\ items[1].Slot = 0

\* C6: when exportStructure or exportJson is called from the export
\* buttons, the Items list of the template equals the items state.
C6_TemplateSynced ==
    ev.op \in {"exportStructure", "exportJson"} =>
        /\ Len(itemList) = Len(items)
        /\ \A j \in 1..Len(items) : itemList[j].item = items[j]

\* an export after an edit, with two items in the list
C6_Witness ==
    /\ ev.op = "exportJson"
    /\ Len(items) = 2
    /\ items[1].Name = "minecraft:stick"
    /\ items[2].display = "Excalibur"

\* C7: the snackbar is shown exactly when the stored message is not '';
\* the handlers' showSnackbar calls store message and severity and the
\* snackbar is rendered with them; handleClose empties the message and
\* hides it; initially the message is '' and the snackbar hidden.
C7_ShownIffMessage ==
    /\ snackProps.open <=> message # <<>>
    /\ snackProps.message = message
    /\ snackProps.severity = severity
    /\ ev.op = "handleClose" => message = <<>> /\ ~snackProps.open
    /\ ev.op = "mount" => message = <<>> /\ ~snackProps.open
    /\ ev.op \in {"loadStructure", "loadText", "formatPreview", "handleCopy"} =>
          message # <<>> /\ snackProps.open /\ severity \in Severities

\* the snackbar shows a success message
C7_Witness ==
    /\ ev.op = "loadText"
    /\ snackProps.open
    /\ snackProps.message = <<"Successfully loaded ", "edit.json">>
    /\ snackProps.severity = "success"

\* the handlers of the converter page that call showSnackbar
ShowingOps == {"updatePreview", "loadStructure", "loadText", "handleGenerate",
               "formatPreview", "handleCopy"}

\* C8: an open snackbar is eventually closed by onClose (the auto-hide
\* timer or a dismissal), and a hidden snackbar opens only by a handler's
\* showSnackbar call with a non-empty message.
C8_AutoDismiss ==
    /\ snackProps.open ~> ~snackProps.open
    /\ [][(ev'.op = "handleClose") => ~snackProps'.open]_vars
    /\ [][(~snackProps.open /\ snackProps'.open) =>
             (ev'.op \in ShowingOps /\ message' # <<>>)]_vars

\* the timer closed a snackbar
C8_Witness ==
    /\ ev.op = "handleClose"
    /\ ev.arg = "timeout"
    /\ ~snackProps.open
    /\ severity = "success"

\* C9: accepting a file named 'level.dat' or 'level.dat_old' while the
\* input type is 'structure' sets isLevelDatMode; accepting any other file,
\* or any file while the type is 'json', leaves it; with the mode on,
\* Generate prepends the 8-byte header.
C9_LevelDatMode ==
    /\ [][(ev'.op = "updatePreview") =>
             isLevelDatMode' =
                IF ev'.arg.selection = "structure"
                      /\ ev'.arg.name \in {"level.dat", "level.dat_old"}
                THEN TRUE ELSE isLevelDatMode]_vars
    /\ [][(ev'.op = "handleGenerate" /\ ev'.out.kind = "download" /\ isLevelDatMode) =>
             HasLevelHeader(ev'.out.bytes)]_vars

\* level.dat_old was dropped in structure mode and the mode is on
C9_Witness ==
    /\ ev.op = "updatePreview"
    /\ ev.arg.name = "level.dat_old"
    /\ ev.arg.selection = "structure"
    /\ ev.arg.by = "drop"
    /\ isLevelDatMode

\* C10: loading a structure file has two outcomes. Parsing succeeds: the
\* preview holds the 2-space-indented JSON of the parsed tree, the error
\* flag is false, the output name is the file's name, a success snackbar
\* shows. Parsing fails: the preview is empty, the error flag true, an
\* error snackbar carries the exception text, the output name is unchanged.
C10_LoadOutcomes ==
    [][(ev'.op = "loadStructure") =>
          LET got == nbtParse(ev'.arg.bytes)
          IN  IF got.ok
              THEN /\ preview'.kind = "json"
                   /\ preview'.indent = 2
                   /\ preview'.value = JsonValue(got.value)
                   /\ isError' = FALSE
                   /\ fileName' = ev'.arg.name
                   /\ snackProps' = [open |-> TRUE,
                                     message |-> <<"Successfully loaded ", ev'.arg.name>>,
                                     severity |-> "success"]
              ELSE /\ preview' = EmptyText
                   /\ isError' = TRUE
                   /\ fileName' = fileName
                   /\ snackProps' = [open |-> TRUE, message |-> got.error,
                                     severity |-> "error"]]_vars

\* a load failed after an earlier file had been loaded
C10_Witness ==
    /\ ev.op = "loadStructure"
    /\ ev.arg.name = "broken.mcstructure"
    /\ isError
    /\ preview = EmptyText
    /\ fileName = "house.mcstructure"

\* the text of what a Generate click throws with the preview as it is
GenerateError ==
    IF preview = EmptyText THEN EmptyPreviewError
    ELSE IF ~JsonParse(preview).ok THEN JsonParse(preview).error
    ELSE writeUncompressed(JsonParse(preview).value).error

\* C11: a Generate click with an empty preview, a preview that is no JSON or
\* data the NBT writer rejects triggers no download and shows the error
\* snackbar with the exception's text; otherwise it triggers the download of
\* the written bytes and shows the success snackbar (redesigned page) or no
\* snackbar (original page), never an error one.
C11_GenerateFailsSafely ==
    [][(ev'.op = "handleGenerate") =>
          IF \/ preview = EmptyText
             \/ ~JsonParse(preview).ok
             \/ ~writeUncompressed(JsonParse(preview).value).ok
          THEN /\ ev'.out = NoOut
               /\ snackProps' = [open |-> TRUE, message |-> GenerateError,
                                 severity |-> "error"]
          ELSE /\ ev'.out.kind = "download"
               /\ ev'.out.name = fileName
               /\ ev'.out.bytes =
                      parseStructure(preview.value, selection, JsBool(isLevelDatMode)).bytes
               /\ IF page = "redesigned"
                  THEN snackProps' = [open |-> TRUE,
                                      message |-> <<"File generated successfully!">>,
                                      severity |-> "success"]
                  ELSE UNCHANGED snackVars]_vars

\* Generate was clicked on JSON that the NBT writer rejects
C11_Witness ==
    /\ ev.op = "handleGenerate"
    /\ ev.out = NoOut
    /\ preview = JsonText(NotNbt, 0)
    /\ snackProps.open
    /\ snackProps.severity = "error"
    /\ snackProps.message = <<"TypeError: ", "undefined">>

C13_AnalyticsOnlyWithId ==
    /\ [](GA_TRACKING_ID = "" => /\ Analytics = <<>>
                                  /\ listeners = 0
                                  /\ dataLayer = <<>>)
    /\ [][(ev'.op = "pageview" /\ GA_TRACKING_ID = "") =>
             /\ ev'.out.gtag = <<>>
             /\ ~ev'.out.thrown
             /\ dataLayer' = dataLayer]_vars
    /\ [][(ev'.op = "routeChangeComplete") =>
             /\ GA_TRACKING_ID = "" => ev'.out.pageviews = <<>> /\ ev'.out.gtag = <<>>
             /\ (GA_TRACKING_ID # "" /\ appMounted) =>
                    /\ ev'.out.pageviews = <<ev'.arg>>
                    /\ ev'.out.gtag = <<[cmd |-> "config", id |-> GA_TRACKING_ID,
                                         page_path |-> ev'.arg]>>]_vars

\* with the id set and the scripts loaded, a route change to /items was
\* tracked
C13_Witness ==
    /\ GA_TRACKING_ID = "G-TEST"
    /\ appMounted
    /\ ev.op = "routeChangeComplete"
    /\ ev.arg = "/items"
    /\ ev.out.pageviews = <<"/items">>
    /\ Len(dataLayer) = 3
    /\ dataLayer[3] = [cmd |-> "config", id |-> "G-TEST", page_path |-> "/items"]

\* C14: two calls of parseStructure, or of writeStructure, with the same
\* data and the same isLevelDat return the same bytes (or throw the same)
\* whatever their mode arguments are
C14_ModeUnused ==
    (cPrev.args.fn # "none") =>
        /\ cPrev.args.fn = cArgs.fn
        /\ cPrev.args.data = cArgs.data
        /\ cPrev.args.isLevelDat = cArgs.isLevelDat
        /\ cResult = cPrev.result

\* writeStructure was called with mode 'structure' and then with mode
\* 'json' on the same data with isLevelDat true, and returned bytes
C14_Witness ==
    /\ cArgs.fn = "writeStructure"
    /\ cPrev.args.fn = "writeStructure"
    /\ cPrev.args.mode = "structure"
    /\ cArgs.mode = "json"
    /\ cArgs.isLevelDat = "true"
    /\ cResult.ok
    /\ Len(cResult.bytes) > 8

\* C16: expand is false or one index, so at most one accordion is rendered
\* expanded; handleExpand(i) collapses all when i is the expanded index and
\* otherwise leaves i as the only expanded one; an addItem that adds an item
\* leaves the new, last item as the only expanded one.
C16_OneExpanded ==
    /\ [](/\ expand = ExpandFalse \/ expand \in 0..(MAX_COUNT - 1)
          /\ Cardinality({i \in 0..(Len(items) - 1) : AccordionExpanded(expand, i)}) <= 1)
    /\ [][(ev'.op = "handleExpand") =>
             {i \in 0..(Len(items') - 1) : AccordionExpanded(expand', i)}
                = IF AccordionExpanded(expand, ev'.arg) THEN {} ELSE {ev'.arg}]_vars
    /\ [][(ev'.op = "addItem" /\ Len(items) < 27) =>
             /\ Len(items') = Len(items) + 1
             /\ {i \in 0..(Len(items') - 1) : AccordionExpanded(expand', i)}
                   = {Len(items') - 1}]_vars

\* the expanded accordion of the second of three items was collapsed
C16_Witness ==
    /\ ev.op = "handleExpand"
    /\ ev.arg = 1
    /\ expand = ExpandFalse
    /\ Len(items) = 3

\* C15: the drawer starts closed, the hamburger button opens it, and an
\* onClose from the close button or from a click outside leaves it closed:
\* the update such an event queues, which the next render shows, is 'closed'.
C15_OnCloseCloses ==
    /\ [](ev.op = "mount" => ~menuOpened /\ ~drawerMounted)
    /\ [][(ev'.op = "menuButton") => menuQueue'[Len(menuQueue')] = TRUE]_vars
    /\ [][(ev'.op \in {"closeButton", "backdropClick"}) =>
             menuQueue'[Len(menuQueue')] = FALSE]_vars

====
